---- MODULE Spec2Model ----
(***************************************************************************)
(* Model of the asynchronous CV generation pipeline of morphCV:            *)
(* the submitting handlers (create_cv, update_cv, delete_cv), the Celery   *)
(* tasks (generate_cv_task, edit_cv_task), the three-tier compilation      *)
(* chain of latex_service and the record writes of CVService.              *)
(*                                                                         *)
(* One Job Record (table cvs, one row) is followed through its life.       *)
(* Every database commit, every enqueue and every stage of a task is one   *)
(* step, so that the commits of a handler interleave with the steps of the *)
(* workers.  The title and the timestamps (created_at, updated_at,         *)
(* last_downloaded) of the record are not modelled; generation_time is     *)
(* modelled as set / not set.                                              *)
(***************************************************************************)
EXTENDS Integers, Sequences, FiniteSets, TLC

\* ---- bounds of the model -------------------------------------------------
MaxEdits == 1          \* update_cv requests issued on the record
NumWorkers == 2        \* size of the Celery worker pool

\* ---- program constants ---------------------------------------------------
DefaultGenerations == 2
PaidGenerations == 999
MinLatexLength == 100          \* len(latex_code.strip()) < 100 is rejected
BasicTemplateLength == 1091    \* len(get_basic_template().strip())
PlaceholderLength == 363       \* characters of the placeholders in it

None == "None"
PdfPath == "cv.pdf"
JpgPath == "cv.jpg"

\* CVStatus
PENDING == "pending"
PROCESSING == "processing"
SUCCESS == "success"
FAILED == "failed"
CVStatus == {PENDING, PROCESSING, SUCCESS, FAILED}

\* UserTier (enterprise behaves as pro everywhere in the pipeline)
UserTier == {"free", "pro"}

\* ---- profile data and its stored text -----------------------------------
\* A profile mapping is abstracted to its identity; "empty" is the mapping {}.
CreateProfiles == {"pA"}
UpdateProfiles == {"empty"}

\* str(dict): the Python repr of the mapping.  Keys and string values are
\* written with single quotes; the empty mapping is written {}.
PyStr(d) == [quote |-> IF d = "empty" THEN "none" ELSE "single", map |-> d]

\* json.loads(text): JSON strings take double quotes, so a text with
\* single-quoted strings raises JSONDecodeError.
JsonLoads(t) == IF t.quote \in {"none", "double"} THEN t.map ELSE "JSONDecodeError"

\* ---- external outcomes ---------------------------------------------------
GeminiOutcomes == {"ok", "no_api_key", "call_error", "empty", "too_short",
                   "no_preamble"}

\* What the probe (pdflatex --version) and the compiler run can meet.
\* "ExitZero": the compiler exits with code 0 and writes cv.pdf;
\* "ExitZeroNoOutput": it exits with code 0 and writes nothing;
\* "ProbeOSError": the probe raises an exception other than the three caught.
Tier1Failures == {"BinaryMissing", "ProbeTimeout", "ProbeNonZero",
                  "CompileTimeout", "CompileNonZero", "CompileError",
                  "ExitZeroNoOutput"}
Tier1Outcomes == Tier1Failures \cup {"ProbeOSError", "ExitZero"}

PrepareOutcomes == {"ok", "mkdir_fail", "write_fail"}
Tier3Outcomes == {"ok", "pdf_fail", "jpg_fail"}

\* ---- the Job Record -------------------------------------------------------
NoRow == [row |-> "absent", status |-> PENDING, task_id |-> 0,
          error_message |-> None, latex_code |-> None, pdf_path |-> None,
          jpg_path |-> None, pdf_size |-> 0, generation_time |-> 0,
          user_data |-> PyStr("empty"), job_description |-> None]

\* the row after db.session.delete(cv) and the commit
Deleted == [NoRow EXCEPT !.row = "deleted"]

\* CV(...) as constructed by create_cv: column defaults for the rest
NewCV(user_data, job_description) ==
    [NoRow EXCEPT !.row = "present", !.status = PENDING,
                  !.user_data = PyStr(user_data),
                  !.job_description = job_description]

\* User.can_generate_cv
can_generate_cv(u) ==
    IF u.user_tier = "free" THEN u.generations_left > 0 ELSE TRUE

\* User.use_generation
use_generation(u) ==
    IF u.user_tier = "free" /\ u.generations_left > 0
    THEN [u EXCEPT !.generations_left = @ - 1]
    ELSE u

\* an update_cv_status that leaves pdf_size as it was
update_cv_status_no_size(c, status, error_message, latex_code, pdf_path, jpg_path, disk_size) ==
    [c EXCEPT !.status = status,
              !.error_message = IF error_message # None THEN error_message ELSE @,
              !.latex_code = IF latex_code # None THEN latex_code ELSE @,
              !.pdf_path = IF pdf_path # None THEN pdf_path ELSE @,
              !.jpg_path = IF jpg_path # None THEN jpg_path ELSE @,
              !.generation_time = 1]

\* CVService.update_cv_status on a row that exists and whose commit succeeds;
\* disk_size is os.path.getsize(pdf_path), 0 when the file does not exist.
update_cv_status(c, status, error_message, latex_code, pdf_path, jpg_path, disk_size) ==
    [c EXCEPT !.status = status,
              !.error_message = IF error_message # None THEN error_message ELSE @,
              !.latex_code = IF latex_code # None THEN latex_code ELSE @,
              !.pdf_path = IF pdf_path # None THEN pdf_path ELSE @,
              !.pdf_size = IF pdf_path # None /\ disk_size # 0 THEN disk_size ELSE @,
              !.jpg_path = IF jpg_path # None THEN jpg_path ELSE @,
              !.generation_time = 1]

\* ---- Content Generation Client -------------------------------------------
\* The source texts, by what the validation reads of them: the length of
\* the stripped text and whether it starts with \documentclass.
\* "ai", "ai_short", "ai_nodoc" and "" are texts the model can answer with,
\* "edited" an edited source it answers with, "substitute" the basic template
\* with its placeholders replaced (here by empty strings, its shortest form).
TextLength(x) ==
    CASE x = "" -> 0
      [] x = "ai_short" -> MinLatexLength - 1
      [] x \in {"ai", "ai_nodoc", "edited"} -> MinLatexLength
      [] x = "substitute" -> BasicTemplateLength - PlaceholderLength

StartsWithDocumentclass(x) == x \in {"ai", "ai_short", "edited", "substitute"}

\* response.parsed.latex_code for an outcome in which the call returns
ResponseText(outcome) ==
    CASE outcome = "ok" -> "ai"
      [] outcome = "empty" -> ""
      [] outcome = "too_short" -> "ai_short"
      [] outcome = "no_preamble" -> "ai_nodoc"

\* the two checks made on the text the model returned
PassesValidation(latex_code) ==
    /\ ~(latex_code = "" \/ TextLength(latex_code) < MinLatexLength)
    /\ StartsWithDocumentclass(latex_code)

\* get_fallback_template: the static template filled with the profile fields
get_fallback_template == "substitute"

\* a generate_cv_with_gemini that returns the model's text without the checks
generate_cv_with_gemini_unvalidated(outcome) ==
    IF outcome \in {"no_api_key", "call_error"}
    THEN get_fallback_template
    ELSE ResponseText(outcome)

\* a generate_cv_with_gemini that returns an empty source when the call or
\* the validation fails, instead of the substitute
generate_cv_with_gemini_empty(outcome) ==
    IF outcome = "ok" THEN "ai" ELSE ""

\* generate_cv_with_gemini: the validated model output, or the substitute
generate_cv_with_gemini(outcome) ==
    IF outcome \in {"no_api_key", "call_error"}
    THEN get_fallback_template
    ELSE IF PassesValidation(ResponseText(outcome))
    THEN ResponseText(outcome)
    ELSE get_fallback_template

\* an edit_cv_with_gemini that returns nothing when the call or the
\* validation fails
edit_cv_with_gemini_none(existing_latex, outcome) ==
    IF outcome = "ok" THEN "edited" ELSE None

\* edit_cv_with_gemini: the validated edited source, or the existing source
edit_cv_with_gemini(existing_latex, outcome) ==
    IF outcome = "ok" THEN "edited" ELSE existing_latex

\* ---- Content Renderer ----------------------------------------------------
\* The state of one call of compile_latex_to_pdf: where the call stands (pc),
\* which handler made the running call of _create_dummy_files (ctx), the
\* tiers attempted so far (tiers), what Tier 1 met and returned, the paths
\* the call returns, and whether a placeholder call raised.
CallInit == [pc |-> "prepare", ctx |-> "try", tiers |-> <<>>,
             t1out |-> None, t1exists |-> FALSE, t1ret |-> None,
             pdf |-> None, jpg |-> None, prevFailed |-> 0,
             t3raised |-> FALSE, t3last |-> None]

NoFiles == [dir |-> FALSE, pdf |-> 0, jpg |-> FALSE]

\* _create_jpg_preview: the path, or None when rasterising fails
_create_jpg_preview(ok) == IF ok THEN JpgPath ELSE None

\* a _compile_with_pdflatex without the os.path.exists check after exit code 0
_compile_with_pdflatex_unchecked(outcome, exists, user_tier, preview_ok) ==
    CASE outcome = "ProbeOSError" -> [kind |-> "raise", pdf |-> None, jpg |-> None]
      [] outcome \in {"BinaryMissing", "ProbeTimeout", "ProbeNonZero"} ->
            [kind |-> "return", pdf |-> None, jpg |-> None]
      [] outcome \in {"CompileTimeout", "CompileNonZero", "CompileError"} ->
            [kind |-> "return", pdf |-> None, jpg |-> None]
      [] OTHER ->
            [kind |-> "return", pdf |-> PdfPath,
             jpg |-> IF user_tier = "free"
                     THEN _create_jpg_preview(preview_ok) ELSE None]

\* _compile_with_pdflatex: result for a probe/compile outcome; exists is
\* os.path.exists(cv.pdf) after the compiler ran.
_compile_with_pdflatex(outcome, exists, user_tier, preview_ok) ==
    CASE outcome = "ProbeOSError" -> [kind |-> "raise", pdf |-> None, jpg |-> None]
      [] outcome \in {"BinaryMissing", "ProbeTimeout", "ProbeNonZero"} ->
            [kind |-> "return", pdf |-> None, jpg |-> None]
      [] outcome \in {"CompileTimeout", "CompileNonZero", "CompileError"} ->
            [kind |-> "return", pdf |-> None, jpg |-> None]
      [] OTHER ->
            IF ~exists
            THEN [kind |-> "return", pdf |-> None, jpg |-> None]
            ELSE [kind |-> "return", pdf |-> PdfPath,
                  jpg |-> IF user_tier = "free"
                          THEN _create_jpg_preview(preview_ok) ELSE None]

\* _create_fallback_pdf: the drawn document and its preview, or the exception
\* that its handler turns into a call of _create_dummy_files
_create_fallback_pdf(ok, user_tier, preview_ok) ==
    IF ok
    THEN [kind |-> "return", pdf |-> PdfPath,
          jpg |-> IF user_tier = "free" THEN _create_jpg_preview(preview_ok) ELSE None]
    ELSE [kind |-> "dummy", pdf |-> None, jpg |-> None]

\* a _create_dummy_files that writes its files and returns no paths
_create_dummy_files_no_paths(outcome, user_tier) ==
    IF outcome = "ok"
    THEN [kind |-> "return", pdf |-> None, jpg |-> None]
    ELSE [kind |-> "raise", pdf |-> None, jpg |-> None]

\* _create_dummy_files: the placeholder document and, for free users, the
\* placeholder image; any exception is raised again
_create_dummy_files(outcome, user_tier) ==
    IF outcome = "ok"
    THEN [kind |-> "return", pdf |-> PdfPath,
          jpg |-> IF user_tier = "free" THEN JpgPath ELSE None]
    ELSE [kind |-> "raise", pdf |-> None, jpg |-> None]

\* The steps of compile_latex_to_pdf.  Each gives the set of pairs
\* (call state, files) that the step can lead to from call state k and
\* files f; a file is written only into a directory that exists.

\* os.makedirs(user_dir) and the write of cv.tex; an exception goes to the
\* handler of compile_latex_to_pdf, which calls _create_dummy_files
PrepareStep(k, f) ==
    { [k |-> IF o = "ok" THEN [k EXCEPT !.pc = "tier1"]
                         ELSE [k EXCEPT !.pc = "tier3", !.ctx = "outer"],
       fs |-> IF o = "mkdir_fail" THEN f ELSE [f EXCEPT !.dir = TRUE]]
      : o \in IF f.dir THEN {"ok", "write_fail"} ELSE PrepareOutcomes }

\* Tier 1: _compile_with_pdflatex and the check of its result
Tier1Result(k, f, user_tier, o, preview_ok) ==
    LET written == o = "ExitZero"
        exists == written \/ f.pdf # 0
        r == _compile_with_pdflatex(o, exists, user_tier, preview_ok)
        k1 == [k EXCEPT !.tiers = Append(@, 1), !.t1out = o,
                        !.t1exists = exists,
                        !.t1ret = IF r.kind = "raise" THEN "raise"
                                  ELSE IF r.pdf # None THEN "paths" ELSE "none"]
    IN
    [k |-> IF r.kind = "raise"
           THEN [k1 EXCEPT !.pc = "tier3", !.ctx = "outer"]
           ELSE IF r.pdf # None /\ exists
           THEN [k1 EXCEPT !.pc = "returned", !.pdf = r.pdf, !.jpg = r.jpg,
                           !.prevFailed = IF user_tier = "free" /\ r.jpg = None
                                          THEN 1 ELSE @]
           ELSE [k1 EXCEPT !.pc = "tier2"],
     fs |-> [f EXCEPT !.pdf = IF written THEN 1 ELSE @,
                      !.jpg = IF r.jpg # None THEN TRUE ELSE @]]

Tier1Step(k, f, user_tier) ==
    { Tier1Result(k, f, user_tier, o, preview_ok) :
        o \in IF f.dir THEN Tier1Outcomes ELSE Tier1Outcomes \ {"ExitZero"},
        preview_ok \in IF f.dir /\ user_tier = "free" THEN BOOLEAN ELSE {FALSE} }

\* Tier 2: _create_fallback_pdf
Tier2Result(k, f, user_tier, ok, preview_ok) ==
    LET r == _create_fallback_pdf(ok, user_tier, preview_ok)
        k1 == [k EXCEPT !.tiers = Append(@, 2), !.t1out = None,
                        !.t1exists = FALSE, !.t1ret = None]
    IN
    [k |-> IF r.kind = "return"
           THEN [k1 EXCEPT !.pc = "returned", !.pdf = r.pdf, !.jpg = r.jpg,
                           !.prevFailed = IF user_tier = "free" /\ r.jpg = None
                                          THEN 2 ELSE @]
           ELSE [k1 EXCEPT !.pc = "tier3", !.ctx = "inner"],
     fs |-> [f EXCEPT !.pdf = IF ok THEN 2 ELSE @,
                      !.jpg = IF r.jpg # None THEN TRUE ELSE @]]

Tier2Step(k, f, user_tier) ==
    { Tier2Result(k, f, user_tier, ok, preview_ok) :
        ok \in IF f.dir THEN BOOLEAN ELSE {FALSE},
        preview_ok \in IF f.dir /\ user_tier = "free" THEN BOOLEAN ELSE {FALSE} }

\* Tier 3: _create_dummy_files, called by the handler of _create_fallback_pdf
\* ("inner", itself inside the try block of compile_latex_to_pdf) or by the
\* handler of compile_latex_to_pdf ("outer")
Tier3Result(k, f, user_tier, o) ==
    LET r == _create_dummy_files(o, user_tier)
        k1 == [k EXCEPT !.tiers = Append(@, 3), !.t3last = o,
                        !.t1out = None, !.t1exists = FALSE, !.t1ret = None,
                        !.t3raised = @ \/ r.kind = "raise",
                        !.prevFailed = IF o = "jpg_fail" THEN 3 ELSE @]
    IN
    [k |-> IF r.kind = "return"
           THEN [k1 EXCEPT !.pc = "returned", !.pdf = r.pdf, !.jpg = r.jpg]
           ELSE IF k.ctx = "inner"
           THEN [k1 EXCEPT !.ctx = "outer"]
           ELSE [k1 EXCEPT !.pc = "raised"],
     fs |-> [f EXCEPT !.pdf = IF o \in {"ok", "jpg_fail"} THEN 3 ELSE @,
                      !.jpg = IF r.jpg # None THEN TRUE ELSE @]]

Tier3Step(k, f, user_tier) ==
    { Tier3Result(k, f, user_tier, o) :
        o \in IF ~f.dir THEN {"pdf_fail"}
              ELSE IF user_tier = "free" THEN Tier3Outcomes
              ELSE Tier3Outcomes \ {"jpg_fail"} }

CallStep(k, f, user_tier) ==
    CASE k.pc = "prepare" -> PrepareStep(k, f)
      [] k.pc = "tier1" -> Tier1Step(k, f, user_tier)
      [] k.pc = "tier2" -> Tier2Step(k, f, user_tier)
      [] k.pc = "tier3" -> Tier3Step(k, f, user_tier)
      [] OTHER -> {}

\* compile_latex_to_pdf as a whole: every way the call can end
RECURSIVE compile_latex_to_pdf(_, _, _)
compile_latex_to_pdf(k, f, user_tier) ==
    IF k.pc \in {"returned", "raised"}
    THEN {[k |-> k, fs |-> f]}
    ELSE UNION { compile_latex_to_pdf(n.k, n.fs, user_tier) : n \in CallStep(k, f, user_tier) }

VARIABLES cv, user, fs, queue, nextTask, running, crt, sessions, edits,
          tokens, now, response, cleanup, requests

vars == <<cv, user, fs, queue, nextTask, running, crt, sessions, edits,
          tokens, now, response, cleanup, requests>>

\* no download request answered yet
NoResponse ==
    [handler |-> None, code |-> 0, file_type |-> None, token |-> 0,
     expires_in |-> 0, at |-> 0]

\* a task as it sits in the queue, and as a worker starts it
NewTask(id, kind, user_tier) ==
    [id |-> id, kind |-> kind, user_tier |-> user_tier, pc |-> "queued",
     latex |-> None, k |-> CallInit, errmsg |-> None, outcome |-> None,
     progress |-> <<>>]

Init ==
    /\ cv = NoRow
    /\ user \in [user_tier : UserTier, generations_left : {DefaultGenerations}]
    /\ fs = NoFiles
    /\ queue = {}
    /\ nextTask = 1
    /\ running = {}
    /\ crt = [pc |-> "idle", task |-> 0]
    /\ sessions = {}
    /\ edits = 0
    /\ tokens = {}
    /\ now = 0
    /\ response = NoResponse
    /\ cleanup = "idle"
    /\ requests = <<>>

Present == cv.row = "present"

SetTask(t, rec) == running' = (running \ {t}) \cup {rec}

\* ---- Submitting handler: create_cv ----------------------------------------
\* generation_limit_check; the CV row is added and committed as Pending;
\* generate_cv_task.delay(...) hands the task to the broker
CreateSubmit ==
    /\ crt.pc = "idle"
    /\ can_generate_cv(user)
    /\ \E ud \in CreateProfiles, broker_ok \in BOOLEAN :
          /\ cv' = NewCV(ud, "jd0")
          /\ IF broker_ok
             THEN /\ queue' = queue \cup {NewTask(nextTask, "generate", user.user_tier)}
                  /\ nextTask' = nextTask + 1
                  /\ crt' = [pc |-> "enqueued", task |-> nextTask]
             ELSE /\ crt' = [crt EXCEPT !.pc = "error"]
                  /\ UNCHANGED <<queue, nextTask>>
    /\ UNCHANGED <<user, fs, running, sessions, edits>>
    /\ UNCHANGED <<tokens, now, response, cleanup, requests>>

\* cv.task_id = task.id; cv.status = PROCESSING; commit
CreateMarkProcessing ==
    /\ crt.pc = "enqueued"
    /\ IF Present
       THEN /\ cv' = [cv EXCEPT !.task_id = crt.task, !.status = PROCESSING]
            /\ crt' = [crt EXCEPT !.pc = "marked"]
       ELSE /\ crt' = [crt EXCEPT !.pc = "error"]
            /\ UNCHANGED cv
    /\ UNCHANGED <<user, fs, queue, nextTask, running, sessions, edits>>
    /\ UNCHANGED <<tokens, now, response, cleanup, requests>>

\* current_user.use_generation(), then the 201 response
CreateUseGeneration ==
    /\ crt.pc = "marked"
    /\ user' = use_generation(user)
    /\ crt' = [crt EXCEPT !.pc = "done"]
    /\ UNCHANGED <<cv, fs, queue, nextTask, running, sessions, edits>>
    /\ UNCHANGED <<tokens, now, response, cleanup, requests>>

\* ---- Worker: generate_cv_task ----------------------------------------------
\* a free worker takes the task; step 1: generate_cv_with_gemini
GenerateStart(t) ==
    /\ t \in queue /\ t.kind = "generate"
    /\ Cardinality(running) < NumWorkers
    /\ queue' = queue \ {t}
    /\ \E o \in GeminiOutcomes :
          LET latex_code == generate_cv_with_gemini(o) IN
          running' = running \cup
             { IF latex_code \in {None, ""}
               THEN [t EXCEPT !.pc = "fail", !.errmsg = "gemini_failed",
                              !.progress = <<20>>]
               ELSE [t EXCEPT !.pc = "load", !.latex = latex_code,
                              !.progress = <<20, 60>>] }
    /\ UNCHANGED <<cv, user, fs, nextTask, crt, sessions, edits>>
    /\ UNCHANGED <<tokens, now, response, cleanup, requests>>

\* step 2 begins: CV.query.get(cv_id)
GenerateLoad(t) ==
    /\ t \in running /\ t.pc = "load"
    /\ IF Present
       THEN SetTask(t, [t EXCEPT !.pc = "compile"])
       ELSE SetTask(t, [t EXCEPT !.pc = "fail", !.errmsg = "not_found"])
    /\ UNCHANGED <<cv, user, fs, queue, nextTask, crt, sessions, edits>>
    /\ UNCHANGED <<tokens, now, response, cleanup, requests>>

\* ---- Worker: edit_cv_task --------------------------------------------------
\* an edit_cv_task without the check of cv.latex_code
EditStartUnchecked(t) ==
    /\ t \in queue /\ t.kind = "edit"
    /\ Cardinality(running) < NumWorkers
    /\ queue' = queue \ {t}
    /\ running' = running \cup
         { IF ~Present
           THEN [t EXCEPT !.pc = "fail", !.errmsg = "not_found"]
           ELSE IF JsonLoads(cv.user_data) = "JSONDecodeError"
           THEN [t EXCEPT !.pc = "fail", !.errmsg = "invalid_user_data",
                          !.progress = <<20>>]
           ELSE [t EXCEPT !.pc = "gemini", !.latex = cv.latex_code,
                          !.progress = <<20, 40>>] }
    /\ UNCHANGED <<cv, user, fs, nextTask, crt, sessions, edits>>
    /\ UNCHANGED <<tokens, now, response, cleanup, requests>>

\* a free worker takes the task; CV.query.get(cv_id), the latex_code check
\* and json.loads(cv.user_data)
EditStart(t) ==
    /\ t \in queue /\ t.kind = "edit"
    /\ Cardinality(running) < NumWorkers
    /\ queue' = queue \ {t}
    /\ running' = running \cup
         { IF ~Present
           THEN [t EXCEPT !.pc = "fail", !.errmsg = "not_found"]
           ELSE IF cv.latex_code \in {None, ""}
           THEN [t EXCEPT !.pc = "fail", !.errmsg = "no_latex", !.progress = <<20>>]
           ELSE IF JsonLoads(cv.user_data) = "JSONDecodeError"
           THEN [t EXCEPT !.pc = "fail", !.errmsg = "invalid_user_data",
                          !.progress = <<20>>]
           ELSE [t EXCEPT !.pc = "gemini", !.latex = cv.latex_code,
                          !.progress = <<20, 40>>] }
    /\ UNCHANGED <<cv, user, fs, nextTask, crt, sessions, edits>>
    /\ UNCHANGED <<tokens, now, response, cleanup, requests>>

\* edit_cv_with_gemini
EditContent(t) ==
    /\ t \in running /\ t.pc = "gemini"
    /\ \E o \in GeminiOutcomes :
          LET edited_latex_code == edit_cv_with_gemini(t.latex, o) IN
          IF edited_latex_code \in {None, ""}
          THEN SetTask(t, [t EXCEPT !.pc = "fail", !.errmsg = "gemini_failed"])
          ELSE SetTask(t, [t EXCEPT !.pc = "compile", !.latex = edited_latex_code,
                                    !.progress = Append(@, 70)])
    /\ UNCHANGED <<cv, user, fs, queue, nextTask, crt, sessions, edits>>
    /\ UNCHANGED <<tokens, now, response, cleanup, requests>>

\* ---- Worker: both tasks ----------------------------------------------------
\* what the task keeps of a finished call: the returned paths, or the raise
Returned(k) == [CallInit EXCEPT !.pc = k.pc, !.pdf = k.pdf, !.jpg = k.jpg,
                                !.t3raised = k.pc = "raised"]

\* a task that goes on to its Success write whether the call returned or raised
AfterCallAlwaysFinalize(t, k) ==
    [t EXCEPT !.pc = "finalize", !.k = k, !.progress = Append(@, 90)]

\* compile_latex_to_pdf returns its paths to the task, or raises to it
AfterCall(t, k) ==
    IF k.pc = "returned"
    THEN [t EXCEPT !.pc = "finalize", !.k = k, !.progress = Append(@, 90)]
    ELSE [t EXCEPT !.pc = "fail", !.k = k, !.errmsg = "complete_failure"]

\* the call compile_latex_to_pdf(cv.uuid, latex_code, user_tier), as one step
Compile(t) ==
    /\ t \in running /\ t.pc = "compile" /\ t.k.pc = "prepare"
    /\ \E n \in compile_latex_to_pdf(t.k, fs, t.user_tier) :
          /\ fs' = n.fs
          /\ SetTask(t, AfterCall(t, Returned(n.k)))
    /\ UNCHANGED <<cv, user, queue, nextTask, crt, sessions, edits>>
    /\ UNCHANGED <<tokens, now, response, cleanup, requests>>

\* the same call, tier by tier
CompileStep(t, pc) ==
    /\ t \in running /\ t.pc = "compile" /\ t.k.pc = pc
    /\ \E n \in CallStep(t.k, fs, t.user_tier) :
          /\ fs' = n.fs
          /\ SetTask(t, [t EXCEPT !.k = n.k])
    /\ UNCHANGED <<cv, user, queue, nextTask, crt, sessions, edits>>
    /\ UNCHANGED <<tokens, now, response, cleanup, requests>>

Prepare(t) == CompileStep(t, "prepare")
Tier1(t) == CompileStep(t, "tier1")
Tier2(t) == CompileStep(t, "tier2")
Tier3(t) == CompileStep(t, "tier3")

CompileReturn(t) ==
    /\ t \in running /\ t.pc = "compile" /\ t.k.pc \in {"returned", "raised"}
    /\ SetTask(t, AfterCall(t, t.k))
    /\ UNCHANGED <<cv, user, fs, queue, nextTask, crt, sessions, edits>>
    /\ UNCHANGED <<tokens, now, response, cleanup, requests>>

\* step 3: update_cv_status(SUCCESS, ...); a False result raises
Finalize(t) ==
    /\ t \in running /\ t.pc = "finalize"
    /\ \E db_ok \in BOOLEAN :
          IF Present /\ db_ok
          THEN /\ cv' = update_cv_status(cv, SUCCESS, None, t.latex,
                                         t.k.pdf, t.k.jpg, fs.pdf)
               /\ SetTask(t, [t EXCEPT !.pc = "done", !.outcome = "success"])
          ELSE /\ SetTask(t, [t EXCEPT !.pc = "fail",
                                       !.errmsg = "db_update_failed"])
               /\ UNCHANGED cv
    /\ UNCHANGED <<user, fs, queue, nextTask, crt, sessions, edits>>
    /\ UNCHANGED <<tokens, now, response, cleanup, requests>>

\* an except block whose Failed write also takes the source and the paths
\* off the record
FailClearing(t) ==
    /\ t \in running /\ t.pc = "fail"
    /\ \E db_ok \in BOOLEAN :
          IF Present /\ db_ok
          THEN /\ cv' = [update_cv_status(cv, FAILED, t.errmsg, None, None, None, 0)
                            EXCEPT !.latex_code = None, !.pdf_path = None,
                                   !.jpg_path = None, !.pdf_size = 0]
               /\ SetTask(t, [t EXCEPT !.pc = "done", !.outcome = "failed"])
          ELSE /\ SetTask(t, [t EXCEPT !.pc = "done", !.outcome = "lost"])
               /\ UNCHANGED cv
    /\ UNCHANGED <<user, fs, queue, nextTask, crt, sessions, edits>>
    /\ UNCHANGED <<tokens, now, response, cleanup, requests>>

\* the except block: update_cv_status(FAILED, error_message), result ignored
Fail(t) ==
    /\ t \in running /\ t.pc = "fail"
    /\ \E db_ok \in BOOLEAN :
          IF Present /\ db_ok
          THEN /\ cv' = update_cv_status(cv, FAILED, t.errmsg, None, None, None, 0)
               /\ SetTask(t, [t EXCEPT !.pc = "done", !.outcome = "failed"])
          ELSE /\ SetTask(t, [t EXCEPT !.pc = "done", !.outcome = "lost"])
               /\ UNCHANGED cv
    /\ UNCHANGED <<user, fs, queue, nextTask, crt, sessions, edits>>
    /\ UNCHANGED <<tokens, now, response, cleanup, requests>>

\* the task returns, or raises to Celery; the worker is free again
TaskEnd(t) ==
    /\ t \in running /\ t.pc = "done"
    /\ running' = running \ {t}
    /\ UNCHANGED <<cv, user, fs, queue, nextTask, crt, sessions, edits>>
    /\ UNCHANGED <<tokens, now, response, cleanup, requests>>

\* ---- Submitting handler: update_cv ----------------------------------------
\* request bodies accepted by CVUpdateSchema
UpdateRequests ==
    { [title |-> "t1", user_data |-> None, job_description |-> None, edit_instructions |-> FALSE],
      [title |-> None, user_data |-> None, job_description |-> "jd1", edit_instructions |-> FALSE],
      [title |-> None, user_data |-> "empty", job_description |-> None, edit_instructions |-> TRUE] }

needs_regeneration(req) == req.edit_instructions \/ req.job_description # None

\* the answer of update_cv
UpdateAnswer(code) ==
    [NoResponse EXCEPT !.handler = "update_cv", !.code = code]

\* an update_cv without the check of the status
UpdateLoadUnchecked ==
    /\ edits < MaxEdits
    /\ Present
    /\ edits' = edits + 1
    /\ \E req \in UpdateRequests, broker_ok \in BOOLEAN :
          IF needs_regeneration(req)
          THEN IF broker_ok
               THEN /\ queue' = queue \cup {NewTask(nextTask, "edit", user.user_tier)}
                    /\ nextTask' = nextTask + 1
                    /\ sessions' = sessions \cup {[task |-> nextTask, req |-> req]}
                    /\ UNCHANGED <<cv, response>>
               ELSE /\ response' = UpdateAnswer(500)
                    /\ UNCHANGED <<cv, queue, nextTask, sessions>>
          ELSE /\ response' = UpdateAnswer(200)
               /\ UNCHANGED <<cv, queue, nextTask, sessions>>
    /\ UNCHANGED <<user, fs, running, crt>>
    /\ UNCHANGED <<tokens, now, cleanup, requests>>

\* the query, the status check (409 for Processing), the assignments in the
\* session and edit_cv_task.delay(...), which answers 500 when it raises; a
\* request without regeneration commits at once and answers 200
UpdateLoad ==
    /\ edits < MaxEdits
    /\ Present
    /\ edits' = edits + 1
    /\ \E req \in UpdateRequests, broker_ok \in BOOLEAN :
          IF cv.status \in {PROCESSING}
          THEN /\ response' = UpdateAnswer(409)
               /\ UNCHANGED <<cv, queue, nextTask, sessions>>
          ELSE IF needs_regeneration(req)
          THEN IF broker_ok
               THEN /\ queue' = queue \cup {NewTask(nextTask, "edit", user.user_tier)}
                    /\ nextTask' = nextTask + 1
                    /\ sessions' = sessions \cup {[task |-> nextTask, req |-> req]}
                    /\ UNCHANGED <<cv, response>>
               ELSE /\ response' = UpdateAnswer(500)
                    /\ UNCHANGED <<cv, queue, nextTask, sessions>>
          ELSE /\ response' = UpdateAnswer(200)
               /\ UNCHANGED <<cv, queue, nextTask, sessions>>
    /\ UNCHANGED <<user, fs, running, crt>>
    /\ UNCHANGED <<tokens, now, cleanup, requests>>

\* the row written by the commit of a regeneration request
update_cv(c, req, task) ==
    [c EXCEPT !.user_data = IF req.user_data # None
                            THEN PyStr(req.user_data) ELSE @,
              !.job_description = IF req.job_description # None
                                  THEN req.job_description ELSE @,
              !.status = PROCESSING,
              !.task_id = task]

\* db.session.commit() of a regeneration request and the answer 200; the
\* commit raises, and the answer is 500, when the row is gone
UpdateCommit(s) ==
    /\ s \in sessions
    /\ sessions' = sessions \ {s}
    /\ IF Present
       THEN /\ cv' = update_cv(cv, s.req, s.task)
            /\ response' = UpdateAnswer(200)
       ELSE /\ response' = UpdateAnswer(500)
            /\ UNCHANGED cv
    /\ UNCHANGED <<user, fs, queue, nextTask, running, crt, edits>>
    /\ UNCHANGED <<tokens, now, cleanup, requests>>

\* ---- Submitting handler: delete_cv ----------------------------------------
\* a delete_cv_files that stops at the failed rmtree
delete_cv_files_no_fallback(c, f, check_ok, rmtree_ok, remove_pdf_ok, remove_jpg_ok) ==
    LET cv_dir_exists == c.pdf_path # None /\ f.dir IN
    [fs |-> IF check_ok /\ cv_dir_exists /\ rmtree_ok THEN NoFiles ELSE f,
     rmtree |-> IF ~check_ok \/ ~cv_dir_exists THEN "not_called"
                ELSE IF rmtree_ok THEN "ok" ELSE "failed",
     removed |-> {},
     raised |-> FALSE]

\* CVService.delete_cv_files: the files left on disk after the call (fs), how
\* shutil.rmtree went (rmtree), the paths os.remove was called with (removed)
\* and whether an exception left the method (raised). check_ok is FALSE when
\* one of the path checks raises; the outer handler logs it. The handler of
\* rmtree logs and deletes files_to_delete one by one, the handler of
\* os.remove logs; none of the three re-raises.
delete_cv_files(c, f, check_ok, rmtree_ok, remove_pdf_ok, remove_jpg_ok) ==
    LET del_pdf == c.pdf_path # None /\ f.pdf # 0
        del_jpg == c.jpg_path # None /\ f.jpg
        files_to_delete == (IF del_pdf THEN {c.pdf_path} ELSE {}) \cup
                           (IF del_jpg THEN {c.jpg_path} ELSE {})
        cv_dir_exists == c.pdf_path # None /\ f.dir
    IN
    IF ~check_ok \/ ~cv_dir_exists
    THEN [fs |-> f, rmtree |-> "not_called", removed |-> {}, raised |-> FALSE]
    ELSE IF rmtree_ok
    THEN [fs |-> NoFiles, rmtree |-> "ok", removed |-> {}, raised |-> FALSE]
    ELSE [fs |-> [f EXCEPT !.pdf = IF del_pdf /\ remove_pdf_ok THEN 0 ELSE @,
                           !.jpg = IF del_jpg /\ remove_jpg_ok THEN FALSE ELSE @],
          rmtree |-> "failed", removed |-> files_to_delete, raised |-> FALSE]

\* delete_cv: the files, then the row
DeleteCv ==
    /\ Present
    /\ \E check_ok \in BOOLEAN, rmtree_ok \in BOOLEAN, remove_ok \in BOOLEAN :
          fs' = delete_cv_files(cv, fs, check_ok, rmtree_ok, remove_ok, remove_ok).fs
    /\ cv' = Deleted
    /\ UNCHANGED <<user, queue, nextTask, running, crt, sessions, edits>>
    /\ UNCHANGED <<tokens, now, response, cleanup, requests>>

\* ---- Maintenance: cleanup_orphaned_files -------------------------------------
\* a cleanup that removes every listed directory without asking for its record
CleanupQueryUnchecked ==
    /\ cleanup = "idle"
    /\ fs.dir
    /\ cleanup' = "orphaned"
    /\ UNCHANGED <<cv, user, fs, queue, nextTask, running, crt, sessions, edits>>
    /\ UNCHANGED <<tokens, now, response, requests>>

\* os.listdir shows the directory cv_<uuid>; CV.query.filter_by(uuid).first()
\* tells whether its record exists (a query that raises is logged and the
\* directory is left)
CleanupQuery ==
    /\ cleanup = "idle"
    /\ fs.dir
    /\ \E query_ok \in BOOLEAN :
          cleanup' = IF query_ok /\ ~Present THEN "orphaned" ELSE "idle"
    /\ UNCHANGED <<cv, user, fs, queue, nextTask, running, crt, sessions, edits>>
    /\ UNCHANGED <<tokens, now, response, requests>>

\* shutil.rmtree(item_path) for a directory found without its record; a
\* failure is logged
CleanupRemove ==
    /\ cleanup = "orphaned"
    /\ cleanup' = "idle"
    /\ \E rmtree_ok \in BOOLEAN :
          fs' = IF rmtree_ok /\ fs.dir THEN NoFiles ELSE fs
    /\ UNCHANGED <<cv, user, queue, nextTask, running, crt, sessions, edits>>
    /\ UNCHANGED <<tokens, now, response, requests>>

\* ---- Subscription webhooks ---------------------------------------------------
\* handle_subscription_created / handle_subscription_updated for a paid plan
SubscriptionUpdated ==
    /\ user.user_tier = "free"
    /\ user' = [user EXCEPT !.user_tier = "pro",
                            !.generations_left = PaidGenerations]
    /\ UNCHANGED <<cv, fs, queue, nextTask, running, crt, sessions, edits>>
    /\ UNCHANGED <<tokens, now, response, cleanup, requests>>

\* handle_subscription_cancelled: back to the free tier and its allowance
SubscriptionCancelled ==
    /\ user.user_tier = "pro"
    /\ user' = [user EXCEPT !.user_tier = "free",
                            !.generations_left = DefaultGenerations]
    /\ UNCHANGED <<cv, fs, queue, nextTask, running, crt, sessions, edits>>
    /\ UNCHANGED <<tokens, now, response, cleanup, requests>>

Next ==
    \/ CreateSubmit \/ CreateMarkProcessing \/ CreateUseGeneration
    \/ UpdateLoad
    \/ \E s \in sessions : UpdateCommit(s)
    \/ DeleteCv
    \/ \E t \in queue : GenerateStart(t)
    \/ \E t \in queue : EditStart(t)
    \/ \E t \in running : GenerateLoad(t)
    \/ \E t \in running : EditContent(t)
    \/ \E t \in running : Compile(t)
    \/ \E t \in running : Finalize(t)
    \/ \E t \in running : Fail(t)
    \/ \E t \in running : TaskEnd(t)
    \/ SubscriptionUpdated \/ SubscriptionCancelled
    \/ CleanupQuery
    \/ CleanupRemove

Spec == Init /\ [][Next]_vars

\* ---- One task, tier by tier ------------------------------------------------
\* The record, the files and the queue when a worker is about to take a
\* task: after create_cv has returned for a generate task; after a generation
\* that Tier 1 completed, or one in which every tier failed for want of the
\* directory, and an accepted, committed update_cv for an edit task.
TaskInit ==
    \E user_tier \in UserTier, kind \in {"generate", "edit"} :
       LET created == [NewCV("pA", "jd0") EXCEPT !.status = PROCESSING,
                                                 !.task_id = 1]
           generated == update_cv_status(created, SUCCESS, None, "ai", PdfPath,
                            IF user_tier = "free" THEN JpgPath ELSE None, 1)
           failed == update_cv_status(created, FAILED, "complete_failure",
                                      None, None, None, 0)
       IN
       /\ user = use_generation([user_tier |-> user_tier,
                                 generations_left |-> DefaultGenerations])
       /\ crt = [pc |-> "done", task |-> 1]
       /\ running = {}
       /\ sessions = {}
       /\ tokens = {}
       /\ now = 0
       /\ response = NoResponse
       /\ cleanup = "idle"
       /\ requests = <<>>
       /\ IF kind = "generate"
          THEN /\ cv = created
               /\ fs = NoFiles
               /\ queue = {NewTask(1, "generate", user_tier)}
               /\ nextTask = 2
               /\ edits = 0
          ELSE /\ \E req \in {r \in UpdateRequests : needs_regeneration(r)},
                     has_source \in BOOLEAN :
                     /\ cv = update_cv(IF has_source THEN generated ELSE failed,
                                       req, 2)
                     /\ fs = IF has_source
                             THEN [dir |-> TRUE, pdf |-> 1, jpg |-> user_tier = "free"]
                             ELSE NoFiles
               /\ queue = {NewTask(2, "edit", user_tier)}
               /\ nextTask = 3
               /\ edits = 1

TaskNext ==
    \/ \E t \in queue : GenerateStart(t)
    \/ \E t \in queue : EditStart(t)
    \/ \E t \in running : GenerateLoad(t)
    \/ \E t \in running : EditContent(t)
    \/ \E t \in running : Prepare(t)
    \/ \E t \in running : Tier1(t)
    \/ \E t \in running : Tier2(t)
    \/ \E t \in running : Tier3(t)
    \/ \E t \in running : CompileReturn(t)
    \/ \E t \in running : Finalize(t)
    \/ \E t \in running : Fail(t)
    \/ \E t \in running : TaskEnd(t)
    \/ DeleteCv
    \/ CleanupQuery
    \/ CleanupRemove

TaskSpec == TaskInit /\ [][TaskNext]_vars

\* ---- Download tokens -------------------------------------------------------
\* at most MaxTokens rows of download_tokens, the clock runs to MaxTime
MaxTokens == 2
MaxTime == 2

\* expires_in of the request body in clock ticks; the handler takes the number
\* as it comes, a negative one included
ExpiresIn == {-1, 1}

\* the type parameter of both handlers; "txt" stands for any other string
FileTypes == {"pdf", "jpg", "txt"}

\* DownloadToken.is_valid with expires_at >= now in place of expires_at > now
is_valid_nonstrict(tok, n) == ~tok.used /\ tok.expires_at >= n

\* DownloadToken.is_valid, n the value of datetime.now(timezone.utc)
is_valid(tok, n) == ~tok.used /\ tok.expires_at > n

\* DownloadToken(cv_id, user_id, file_type, expires_at) with the column
\* defaults; token stands for the uuid4 string, 0 for no token
NewDownloadToken(token, file_type, expires_at, created_at) ==
    [token |-> token, file_type |-> file_type, expires_at |-> expires_at,
     used |-> FALSE, created_at |-> created_at]

\* generate_download_token: 400 for a file type other than pdf and jpg, 404
\* without the row, else the token row is added and committed
GenerateDownloadToken ==
    /\ Cardinality(tokens) < MaxTokens
    /\ \E file_type \in FileTypes, expires_in \in ExpiresIn :
          LET answer(code, token) ==
                  [handler |-> "generate_download_token", code |-> code,
                   file_type |-> file_type, token |-> token,
                   expires_in |-> expires_in, at |-> now]
              token == Cardinality(tokens) + 1
          IN IF file_type \notin {"pdf", "jpg"}
             THEN /\ response' = answer(400, 0)
                  /\ UNCHANGED tokens
             ELSE IF ~Present
             THEN /\ response' = answer(404, 0)
                  /\ UNCHANGED tokens
             ELSE /\ tokens' = tokens \cup
                         {NewDownloadToken(token, file_type, now + expires_in, now)}
                  /\ response' = answer(201, token)
    /\ UNCHANGED <<cv, user, fs, queue, nextTask, running, crt, sessions, edits, now, cleanup, requests>>

\* os.path.exists(file_path) for the path stored on the record
FileExists(file_path) ==
    CASE file_path = PdfPath -> fs.pdf # 0
      [] file_path = JpgPath -> fs.jpg
      [] OTHER -> FALSE

\* download_cv: the token parameter is read from the query string; 400 for a
\* file type other than pdf and jpg, 404 without the row, without the path or
\* without the file, else last_downloaded is committed and the file is sent
DownloadCv ==
    /\ \E file_type \in FileTypes, download_token \in {0} \cup {tok.token : tok \in tokens} :
          LET answer(code) ==
                  [handler |-> "download_cv", code |-> code,
                   file_type |-> file_type, token |-> download_token,
                   expires_in |-> 0, at |-> now]
              file_path == IF file_type = "pdf" THEN cv.pdf_path ELSE cv.jpg_path
          IN IF file_type \notin {"pdf", "jpg"}
             THEN response' = answer(400)
             ELSE IF ~Present
             THEN response' = answer(404)
             ELSE IF file_path = None \/ ~FileExists(file_path)
             THEN response' = answer(404)
             ELSE response' = answer(200)
    /\ UNCHANGED <<cv, user, fs, queue, nextTask, running, crt, sessions, edits>>
    /\ UNCHANGED <<tokens, now, cleanup, requests>>

\* the clock
Tick ==
    /\ now < MaxTime
    /\ now' = now + 1
    /\ UNCHANGED <<cv, user, fs, queue, nextTask, running, crt, sessions, edits>>
    /\ UNCHANGED <<tokens, response, cleanup, requests>>

\* The record and the files once the generate task of a new record has ended:
\* Tier 1 completed, or every tier failed for want of the directory.
DownloadInit ==
    \E user_tier \in UserTier, has_file \in BOOLEAN :
       LET created == [NewCV("pA", "jd0") EXCEPT !.status = PROCESSING,
                                                 !.task_id = 1]
       IN
       /\ user = use_generation([user_tier |-> user_tier,
                                 generations_left |-> DefaultGenerations])
       /\ cv = IF has_file
               THEN update_cv_status(created, SUCCESS, None, "ai", PdfPath,
                        IF user_tier = "free" THEN JpgPath ELSE None, 1)
               ELSE update_cv_status(created, FAILED, "complete_failure",
                                     None, None, None, 0)
       /\ fs = IF has_file
               THEN [dir |-> TRUE, pdf |-> 1, jpg |-> user_tier = "free"]
               ELSE NoFiles
       /\ crt = [pc |-> "done", task |-> 1]
       /\ queue = {}
       /\ nextTask = 2
       /\ running = {}
       /\ sessions = {}
       /\ edits = 0
       /\ tokens = {}
       /\ now = 0
       /\ response = NoResponse
       /\ cleanup = "idle"
       /\ requests = <<>>

DownloadNext ==
    \/ GenerateDownloadToken
    \/ DownloadCv
    \/ Tick

DownloadSpec == DownloadInit /\ [][DownloadNext]_vars

\* ---- Concurrent submissions of one user ---------------------------------------
\* create_cv requests of the one user that are in flight together; each makes
\* its own record, so only the user row is shared
MaxRequests == 3

\* a request before generation_limit_check; read is the generations_left that
\* use_generation finds when it loads the user row again
NewRequest == [pc |-> "new", read |-> 0]

\* generation_limit_check: 403 when the user cannot generate
CreateCheck(r) ==
    /\ requests[r].pc = "new"
    /\ requests' = [requests EXCEPT ![r].pc = IF can_generate_cv(user)
                                              THEN "checked" ELSE "rejected"]
    /\ UNCHANGED <<cv, user, fs, queue, nextTask, running, crt, sessions, edits>>
    /\ UNCHANGED <<tokens, now, response, cleanup>>

\* create_cv up to the commit of Processing: the record is committed and its
\* generate task enqueued; the commits expire the user row in the session
CreateAccept(r) ==
    /\ requests[r].pc = "checked"
    /\ requests' = [requests EXCEPT ![r].pc = "accepted"]
    /\ UNCHANGED <<cv, user, fs, queue, nextTask, running, crt, sessions, edits>>
    /\ UNCHANGED <<tokens, now, response, cleanup>>

\* use_generation: the test of user_tier and generations_left on the row as
\* it is loaded now
CreateReadQuota(r) ==
    /\ requests[r].pc = "accepted"
    /\ requests' = [requests EXCEPT ![r].pc = "read",
                                    ![r].read = user.generations_left]
    /\ UNCHANGED <<cv, user, fs, queue, nextTask, running, crt, sessions, edits>>
    /\ UNCHANGED <<tokens, now, response, cleanup>>

\* use_generation: generations_left -= 1 on the value read, and the commit
CreateWriteQuota(r) ==
    /\ requests[r].pc = "read"
    /\ requests' = [requests EXCEPT ![r].pc = "done"]
    /\ user' = [user EXCEPT !.generations_left =
                   use_generation([user EXCEPT !.generations_left =
                                       requests[r].read]).generations_left]
    /\ UNCHANGED <<cv, fs, queue, nextTask, running, crt, sessions, edits>>
    /\ UNCHANGED <<tokens, now, response, cleanup>>

\* a user with a full quota and MaxRequests requests on their way
QuotaInit ==
    /\ user \in [user_tier : UserTier, generations_left : {DefaultGenerations}]
    /\ requests = [r \in 1..MaxRequests |-> NewRequest]
    /\ cv = NoRow
    /\ fs = NoFiles
    /\ queue = {}
    /\ nextTask = 1
    /\ running = {}
    /\ crt = [pc |-> "idle", task |-> 0]
    /\ sessions = {}
    /\ edits = 0
    /\ tokens = {}
    /\ now = 0
    /\ response = NoResponse
    /\ cleanup = "idle"

QuotaNext ==
    \/ \E r \in 1..MaxRequests : CreateCheck(r)
    \/ \E r \in 1..MaxRequests : CreateAccept(r)
    \/ \E r \in 1..MaxRequests : CreateReadQuota(r)
    \/ \E r \in 1..MaxRequests : CreateWriteQuota(r)

QuotaSpec == QuotaInit /\ [][QuotaNext]_vars

\* ---- Properties -------------------------------------------------------------
Terminal == {SUCCESS, FAILED}

\* no handler is between two commits and no task is queued or running
Quiescent ==
    /\ crt.pc \in {"done", "error"}
    /\ queue = {} /\ running = {} /\ sessions = {}

\* C1: a job accepted by create_cv ends Success or Failed: once the handler
\* has returned and the generate task has run to its end with its record
\* write made (no update request was ever issued), the status is terminal and
\* not Processing.
C1_AcceptedJobEndsTerminal ==
    (Quiescent /\ Present /\ crt.task # 0 /\ edits = 0 /\ cv.generation_time # 0)
        => cv.status \in Terminal

\* C2: the status of the record changes only along the lifecycle; in
\* particular, for every interleaving of the handlers' commits with the
\* workers' commits, a status Success or Failed is replaced by Processing
\* only by the commit of an accepted edit request; stated for the runs in
\* which no update request has been issued yet (edits = 0).
TerminalKept ==
    (Present /\ cv'.row = "present" /\ edits = 0
       /\ cv.status \in Terminal /\ cv'.status = PROCESSING) =>
        \E s \in sessions : sessions' = sessions \ {s}

C2_StatusTransitions == [][TerminalKept]_vars

\* C3: in every reachable state the record's error message is non-null
\* exactly when its status is Failed.
C3_ErrorMessageIffFailed ==
    Present => (cv.error_message # None <=> cv.status = FAILED)

\* C4: in every reachable state the record's primary-artifact path is
\* non-null exactly when its status is Success.
C4_PdfPathIffSuccess ==
    Present => (cv.pdf_path # None <=> cv.status = SUCCESS)

IsPrefix(s, t) == Len(s) <= Len(t) /\ \A i \in 1..Len(s) : s[i] = t[i]

\* C5: within one call of compile_latex_to_pdf the tiers are attempted in the
\* order 1, 2, 3, each only after the one before it, none more than once.
C5_TiersInOrderOnce ==
    \A t \in running : IsPrefix(t.k.tiers, <<1, 2, 3>>)

\* the Tier 1 failures by cause: missing binary, probe timeout, probe non-zero
\* exit, compile timeout, compile non-zero exit, exit 0 without an output file
ListedTier1Failure(k) ==
    \/ k.t1out \in {"BinaryMissing", "ProbeTimeout", "ProbeNonZero",
                    "CompileTimeout", "CompileNonZero"}
    \/ k.t1out \in {"ExitZero", "ExitZeroNoOutput"} /\ ~k.t1exists

StoreWriteFailed(t) == t.errmsg = "db_update_failed" \/ t.outcome = "lost"

\* C7: when Tier 1 has failed, Tier 2 has raised and Tier 3 can write, the
\* placeholder is on disk, compile_latex_to_pdf returns its path, and the
\* task finalizes the record with status Success.
C7_PlaceholderGivesSuccess ==
    \A t \in running :
        (t.k.tiers = <<1, 2, 3>> /\ t.k.t3last = "ok") =>
            /\ t.k.pc = "returned" /\ t.k.pdf = PdfPath
            /\ t.pc # "fail" \/ StoreWriteFailed(t)
            /\ Present => fs.pdf = 3
            /\ (t.pc = "done" /\ Present /\ ~StoreWriteFailed(t)) =>
                   /\ t.outcome = "success"
                   /\ cv.status = SUCCESS /\ cv.pdf_path = PdfPath

C7_Witness ==
    \E t \in running :
        /\ t.k.tiers = <<1, 2, 3>> /\ t.k.t3last = "ok"
        /\ t.pc = "done" /\ t.outcome = "success"
        /\ cv.status = SUCCESS /\ cv.pdf_path = PdfPath /\ fs.pdf = 3

\* C8: if the placeholder builder raises, compile_latex_to_pdf raises to the
\* task, the task writes Failed with the message, and the record is not set
\* to Success in that cycle.
C8_Tier3RaiseGivesFailed ==
    \A t \in running :
        t.k.t3raised =>
            /\ t.k.pc # "returned"
            /\ t.outcome # "success"
            /\ (t.pc = "done" /\ Present /\ ~StoreWriteFailed(t)) =>
                   (cv.status = FAILED /\ cv.error_message = "complete_failure")

\* C9: a generate task whose record exists and whose record writes succeed
\* writes Failed only after Tier 3 raised; a failed generation call, a
\* rejected source, a failed Tier 1 or a failed Tier 2 alone never do.
C9_GenerateFailsOnlyOnTier3 ==
    /\ \A t \in running :
          (t.kind = "generate" /\ t.errmsg \notin {None, "not_found", "db_update_failed"}) =>
              /\ t.errmsg = "complete_failure"
              /\ t.k.pc = "raised" /\ t.k.t3raised /\ t.k.t3last # "ok"
              /\ t.k.tiers # <<>> /\ t.k.tiers[Len(t.k.tiers)] = 3
    /\ (Present /\ cv.task_id = 1 /\ cv.status = FAILED) =>
          cv.error_message \in {"complete_failure", "db_update_failed"}

C9_Witness ==
    \E t \in running :
        /\ t.kind = "generate" /\ t.pc = "done" /\ t.outcome = "failed"
        /\ t.k.t3raised /\ t.k.tiers = <<1, 2, 3, 3>>
        /\ cv.status = FAILED /\ cv.error_message = "complete_failure"

\* C10: for a free-tier job whose preview image could not be produced, the
\* record is finalized with status Success, a primary-artifact path and no
\* preview path, whichever tier wrote the primary artifact.
C10_PreviewFailureNotFatal ==
    \A t \in running :
        (/\ t.kind = "generate" /\ t.user_tier = "free"
         /\ t.k.prevFailed # 0
         /\ t.pc = "done" /\ Present /\ ~StoreWriteFailed(t)) =>
            /\ cv.status = SUCCESS
            /\ cv.pdf_path # None
            /\ cv.jpg_path = None

\* task t makes the Success write of its cycle in this step
FinalizedBy(t) ==
    /\ t \in running /\ t.pc = "finalize"
    /\ [t EXCEPT !.pc = "done", !.outcome = "success"] \in running'
    /\ cv'.status = SUCCESS

\* C11: whenever a cycle has just finalized the record as Success, the
\* record's preview path is non-null only if the tier passed to that cycle
\* is 'free'.
PreviewOnlyForFreeTier ==
    \A t \in running :
        (FinalizedBy(t) /\ cv'.jpg_path # None) => t.user_tier = "free"

C11_PreviewOnlyForPreviewTier == [][PreviewOnlyForFreeTier]_vars

\* C12: an edit task run on a record without generated source ends with
\* status Failed and the message that no existing source was found; the
\* generation client and the renderer are not invoked and the record's source
\* and artifact paths stay as they were (null).
C12_EditWithoutSourceFails ==
    \A t \in running :
        (t.kind = "edit" /\ Present /\ cv.latex_code = None) =>
            /\ t.errmsg = "no_latex"
            /\ t.pc \in {"fail", "done"}
            /\ t.progress = <<20>> /\ t.latex = None
            /\ t.k = CallInit
            /\ cv.pdf_path = None /\ cv.jpg_path = None
            /\ (t.pc = "done" /\ ~StoreWriteFailed(t)) =>
                   /\ t.outcome = "failed"
                   /\ cv.status = FAILED /\ cv.error_message = "no_latex"

C12_Witness ==
    \E t \in running :
        /\ t.kind = "edit" /\ t.pc = "done" /\ t.outcome = "failed"
        /\ t.errmsg = "no_latex" /\ t.k = CallInit
        /\ cv.status = FAILED /\ cv.error_message = "no_latex"
        /\ cv.latex_code = None /\ cv.pdf_path = None

\* C13: generate_cv_with_gemini never raises and never returns empty text:
\* on a missing API key, a call error, an empty or too short output or an
\* output without the preamble marker it returns the substitute, which itself
\* passes the validation (non-empty, minimum length, preamble marker); so
\* every generate task goes on with a text that passes it.
C13_GenerationAlwaysReturnsValidSource ==
    /\ \A o \in GeminiOutcomes :
          /\ PassesValidation(generate_cv_with_gemini(o))
          /\ o # "ok" => generate_cv_with_gemini(o) = get_fallback_template
    /\ \A t \in running :
          (t.kind = "generate" /\ t.pc # "queued") =>
              /\ t.latex # None /\ PassesValidation(t.latex)
              /\ t.errmsg # "gemini_failed"

C13_Witness ==
    \E t \in running :
        /\ t.kind = "generate" /\ t.pc = "load"
        /\ t.latex = get_fallback_template
        /\ TextLength(t.latex) >= MinLatexLength
        /\ StartsWithDocumentclass(t.latex)

\* C14: a download request that presents a Download Token which is expired or
\* has used = true is rejected and serves no artifact.
C14_InvalidTokenRejected ==
    \A tok \in tokens :
        ( /\ response.handler = "download_cv"
          /\ response.token = tok.token
          /\ (tok.used \/ response.at >= tok.expires_at) )
        => response.code # 200

\* the values is_valid is applied to: both values of used, and clock values
\* on both sides of expires_at
TokenTimes == -1 .. (MaxTime + 1)

\* C15: for every Download Token and every time now, is_valid is true exactly
\* when used is false and now is strictly before expires_at; a token issued
\* with a time to live of t has expires_at = issue time + t and used = false.
C15_IsValidAndIssue ==
    /\ \A used \in BOOLEAN, expires_at \in TokenTimes, n \in TokenTimes :
          is_valid([used |-> used, expires_at |-> expires_at], n)
              <=> (~used /\ n < expires_at)
    /\ \A tok \in tokens :
          is_valid(tok, now) <=> (~tok.used /\ now < tok.expires_at)
    /\ (response.handler = "generate_download_token" /\ response.code = 201) =>
          \E tok \in tokens :
              /\ tok.token = response.token
              /\ tok.expires_at = response.at + response.expires_in
              /\ tok.used = FALSE

\* a token was issued with a positive time to live and the clock has reached
\* its expires_at, while the answer that issued it is still the last one
C15_Witness ==
    /\ response.handler = "generate_download_token"
    /\ response.code = 201
    /\ response.expires_in > 0
    /\ \E tok \in tokens :
          /\ tok.token = response.token
          /\ now = tok.expires_at
          /\ is_valid(tok, response.at)
          /\ ~is_valid(tok, now)

\* C16: when Tier 1 has succeeded and the task finalizes the record as
\* Success, the pdf_size written by that finalization is the size of the file
\* on disk at the stored pdf_path.
Tier1SizeStored ==
    \A t \in running :
        (FinalizedBy(t) /\ t.k.t1ret = "paths") =>
            /\ cv'.pdf_path = PdfPath
            /\ fs'.pdf # 0
            /\ cv'.pdf_size = fs'.pdf

Executing == {t \in running : t.pc # "done"}

\* C17: at no time are two worker tasks, generate or edit, executing the
\* pipeline for the one record, so at most one worker at a time is in the
\* renderer, which writes the record's artifact directory.
C17_OneWorkerPerRecord ==
    /\ Cardinality(Executing) <= 1
    /\ Cardinality({t \in running : t.pc = "compile"}) <= 1

\* this step enqueues a generate task
GenerateEnqueued == \E t \in queue' \ queue : t.kind = "generate"

\* this step takes one generation from the user's quota
QuotaConsumed ==
    /\ user'.user_tier = user.user_tier
    /\ user'.generations_left < user.generations_left

\* C18: in create_cv the quota check and the quota consumption both come
\* before the generate task is enqueued, and no worker task consumes quota.
QuotaBeforeEnqueue ==
    /\ GenerateEnqueued => can_generate_cv(user)
    /\ QuotaConsumed =>
          /\ crt.pc \notin {"enqueued", "marked"}
          /\ running' = running /\ queue' = queue

C18_QuotaBeforeEnqueue == [][QuotaBeforeEnqueue]_vars

\* C19: loading the record is the first step of a generate or edit task: a
\* task that starts when the record does not exist fails, with the record not
\* found, before the generation client or the renderer is invoked.
LoadIsFirstStep ==
    \A t \in queue, r \in running' \ running :
        (r.id = t.id /\ ~Present) =>
            /\ r.pc = "fail" /\ r.errmsg = "not_found"
            /\ r.latex = None
            /\ r.k = CallInit

C19_LoadIsFirstStep == [][LoadIsFirstStep]_vars

\* the generation client has returned its source to task t
GenerationReturned(t) ==
    /\ t.latex # None
    /\ IF t.kind = "generate"
       THEN IsPrefix(<<20, 60>>, t.progress)
       ELSE IsPrefix(<<20, 40, 70>>, t.progress)

\* C20: within one generate or edit task the renderer is invoked only after
\* the generation client has returned, Success is written only after the
\* renderer has returned, and the progress values the task reports are
\* strictly increasing.
C20_StagesInOrder ==
    \A t \in running :
        /\ (t.pc = "compile" \/ t.k # CallInit) => GenerationReturned(t)
        /\ (t.pc = "finalize" \/ t.outcome = "success") =>
               (t.k.pc = "returned" /\ t.k.pdf # None)
        /\ \A i \in 1..Len(t.progress), j \in 1..Len(t.progress) :
               i < j => t.progress[i] < t.progress[j]

C20_Witness ==
    \E t \in running :
        /\ t.kind = "edit" /\ t.pc = "done" /\ t.outcome = "success"
        /\ t.k.pc = "returned"
        /\ t.progress = <<20, 40, 70, 90>>
        /\ cv.status = SUCCESS

\* C21: in every committed state of the record, status Processing implies
\* that task_id is set and is the handle of the task most recently enqueued
\* for the record.
C21_ProcessingHasLatestHandle ==
    (Present /\ cv.status = PROCESSING) =>
        /\ cv.task_id # NoRow.task_id
        /\ cv.task_id = nextTask - 1

\* the primary and preview files of the record that are on disk
KnownFiles ==
    (IF cv.pdf_path # None /\ fs.pdf # 0 THEN {cv.pdf_path} ELSE {}) \cup
    (IF cv.jpg_path # None /\ fs.jpg THEN {cv.jpg_path} ELSE {})

\* C22: delete_cv_files never raises: whether removing the directory fails,
\* removing a single file fails or a path check fails, it returns normally;
\* when removing the directory fails it calls os.remove for each of the known
\* primary and preview files, and each of them whose removal succeeds is gone.
C22_DeleteFilesNeverRaises ==
    Present =>
        \A check_ok \in BOOLEAN, rmtree_ok \in BOOLEAN,
           remove_pdf_ok \in BOOLEAN, remove_jpg_ok \in BOOLEAN :
            LET r == delete_cv_files(cv, fs, check_ok, rmtree_ok,
                                     remove_pdf_ok, remove_jpg_ok)
            IN /\ ~r.raised
               /\ ~check_ok => r.fs = fs
               /\ (check_ok /\ cv.pdf_path # None /\ fs.dir /\ ~rmtree_ok) =>
                     /\ r.rmtree = "failed"
                     /\ r.removed = KnownFiles
                     /\ (cv.pdf_path \in KnownFiles /\ remove_pdf_ok) => r.fs.pdf = 0
                     /\ (cv.jpg_path \in KnownFiles /\ remove_jpg_ok) => ~r.fs.jpg
               /\ r.rmtree # "failed" => r.removed = {}

\* the directory could not be removed and the files were removed one by one
C22_Witness ==
    /\ cv = Deleted
    /\ fs.dir /\ fs.pdf = 0 /\ ~fs.jpg
    /\ \E t \in running : t.pc = "done" /\ t.outcome = "success" /\ t.k.jpg # None

\* this step is a delete_cv that deletes the row
DeleteStep == Present /\ cv' = Deleted

\* C23: after a delete_cv that succeeds for a record whose directory can be
\* removed, the record's artifact directory no longer exists, whatever the
\* status at deletion: the directory is left only by a removal that failed.
DirectoryGoneAfterDelete ==
    (DeleteStep /\ fs'.dir) =>
        \E check_ok \in BOOLEAN, rmtree_ok \in BOOLEAN, remove_ok \in BOOLEAN :
            LET r == delete_cv_files(cv, fs, check_ok, rmtree_ok, remove_ok, remove_ok)
            IN r.fs = fs' /\ r.rmtree = "failed"

C23_DirectoryGoneAfterDelete == [][DirectoryGoneAfterDelete]_vars

\* this step is the rmtree of cleanup_orphaned_files taking the directory away
CleanupRemoved == cleanup = "orphaned" /\ cleanup' = "idle" /\ fs.dir /\ ~fs'.dir

\* C24: cleanup_orphaned_files removes only a directory for which no record
\* with its uuid exists: it marks a directory as orphaned only when the query
\* finds no record, and at the moment it removes the directory the record does
\* not exist, whatever create_cv, update_cv, delete_cv and the workers do in
\* between.
OnlyOrphansRemoved ==
    /\ (cleanup = "idle" /\ cleanup' = "orphaned") => ~Present
    /\ CleanupRemoved => ~Present

C24_CleanupOnlyOrphans == [][OnlyOrphansRemoved]_vars

\* the first generate task of a record has compiled into the directory, the
\* record was deleted with no path stored, and the cleanup has removed the
\* directory it left behind
C24_Witness ==
    /\ cv = Deleted
    /\ cleanup = "idle"
    /\ ~fs.dir
    /\ edits = 0
    /\ \E t \in running : t.kind = "generate" /\ t.pc = "finalize"

\* the edit task t has gone past the generation client and holds a source
\* other than an edited one: the call or the validation failed
EditFellBack(t) ==
    /\ t.kind = "edit"
    /\ IsPrefix(<<20, 40, 70>>, t.progress)
    /\ t.latex # "edited"

\* C25 as stated: in edit mode, when the generation call errors or its output
\* fails validation, the task does not fail and the record is finalized with
\* status Success (the record still there and its writes committed).
C25_EditFailureAlwaysSuccess ==
    \A t \in running :
        (EditFellBack(t) /\ t.pc = "done" /\ Present /\ ~StoreWriteFailed(t)) =>
            (t.outcome = "success" /\ cv.status = SUCCESS)

\* C25, amended: in edit mode, when the generation call errors or its output
\* fails validation, the task does not fail at that step: the source it hands
\* to the renderer is exactly the record's prior source, and when the renderer
\* returns and the write is committed the record is finalized with status
\* Success and that source.
C25_EditFallsBackToPriorSource ==
    \A t \in running :
        t.kind = "edit" =>
            /\ t.errmsg # "gemini_failed"
            /\ EditFellBack(t) =>
                  /\ t.pc \in {"compile", "finalize", "fail", "done"}
                  /\ Present => cv.latex_code = t.latex
                  /\ (t.pc = "done" /\ Present /\ ~StoreWriteFailed(t)
                        /\ t.k.pc = "returned") =>
                         /\ t.outcome = "success"
                         /\ cv.status = SUCCESS

C25_Witness ==
    \E t \in running :
        /\ EditFellBack(t)
        /\ t.pc = "done" /\ t.outcome = "success"
        /\ cv.status = SUCCESS /\ cv.latex_code = "ai" /\ t.latex = "ai"

\* C26: the text stored in user_data for a profile mapping accepted by
\* create_cv or update_cv is parsed by the edit task back into the same
\* mapping, and no edit task fails because of the stored format.
C26_ProfileRoundTrip ==
    /\ Present => JsonLoads(cv.user_data) = cv.user_data.map
    /\ \A t \in running : t.errmsg # "invalid_user_data"

\* C27: an edit task runs on the inputs of its edit request: when the task
\* loads the record, the user_data and job_description it reads are the values
\* the update_cv call that enqueued it writes, whatever the interleaving of
\* that call with the worker.
EditReadsItsInputs ==
    \A t \in queue \ queue', s \in sessions :
        (t.kind = "edit" /\ s.task = t.id /\ Present) =>
            /\ cv.user_data = update_cv(cv, s.req, s.task).user_data
            /\ cv.job_description = update_cv(cv, s.req, s.task).job_description

C27_EditReadsItsInputs == [][EditReadsItsInputs]_vars

\* the create_cv requests that were accepted: record committed, task enqueued
Accepted == {r \in DOMAIN requests : requests[r].pc \in {"accepted", "read", "done"}}

\* C28: for a free-tier user with generations_left = n and no subscription
\* change, at most n jobs are accepted by create_cv and generations_left never
\* becomes negative, for every interleaving of concurrent create_cv requests.
C28_QuotaBoundsAccepted ==
    user.user_tier = "free" =>
        /\ Cardinality(Accepted) <= DefaultGenerations
        /\ user.generations_left >= 0

\* task t makes the Failed write of its cycle in this step
FailedBy(t) ==
    /\ t \in running /\ t.pc = "fail"
    /\ [t EXCEPT !.pc = "done", !.outcome = "failed"] \in running'

\* the generated source, the two paths and the size on the record
Artifacts(c) == <<c.latex_code, c.pdf_path, c.jpg_path, c.pdf_size>>

\* C29: the Failed write of a generate or edit task changes only status,
\* error message and elapsed time: the generated source, the primary-artifact
\* path, the preview path and the primary-artifact size keep their values, and
\* no earlier step of the cycle has changed them, the Success write being the
\* only step of a task that does.
FailedWriteKeepsArtifacts ==
    /\ \A t \in running :
          FailedBy(t) =>
              /\ cv'.status = FAILED
              /\ cv'.error_message = t.errmsg
              /\ Artifacts(cv') = Artifacts(cv)
              /\ cv' = [cv EXCEPT !.status = FAILED, !.error_message = t.errmsg,
                                  !.generation_time = cv'.generation_time]
    /\ (cv'.row = "present" /\ Artifacts(cv') # Artifacts(cv)) =>
          \E t \in running : FinalizedBy(t)

C29_FailedWriteKeepsArtifacts == [][FailedWriteKeepsArtifacts]_vars

\* an edit task has written Failed on a record that keeps the source, the
\* paths and the size of its earlier generation
C29_Witness ==
    \E t \in running :
        /\ t.kind = "edit" /\ t.pc = "done" /\ t.outcome = "failed"
        /\ cv.status = FAILED /\ cv.error_message = t.errmsg
        /\ Artifacts(cv) = <<"ai", PdfPath, cv.jpg_path, 1>>

\* this step is the update_cv handler answering or enqueuing
UpdateStep == edits' = edits + 1

\* C30: an update_cv request on a record whose status is Processing is
\* answered with the conflict error 409, enqueues no task and leaves every
\* field of the record unchanged.
ProcessingUpdateRejected ==
    (UpdateStep /\ Present /\ cv.status = PROCESSING) =>
        /\ response'.handler = "update_cv"
        /\ response'.code = 409
        /\ cv' = cv
        /\ queue' = queue /\ nextTask' = nextTask /\ sessions' = sessions

C30_ProcessingUpdateRejected == [][ProcessingUpdateRejected]_vars

C30_Witness ==
    /\ response.handler = "update_cv" /\ response.code = 409
    /\ edits = 1
    /\ Present /\ cv.status = PROCESSING
    /\ sessions = {}
    /\ \A t \in queue \cup running : t.kind # "edit"

====
